---- MODULE Spec2Model ----
(***************************************************************************)
(* A model of minfo (src/minfo.py, src/_unittest.py): the EXIF text        *)
(* parser, the probe (JSON) parser, the MInfo record with its unified      *)
(* lookup and derived properties, the command-line printer and the         *)
(* fixture set-up of the unit test.                                        *)
(*                                                                         *)
(* Python strings are sequences of one-character strings, so that find,    *)
(* strip, split, slicing and the literal syntax accepted by int() and      *)
(* float() are computed as the interpreter computes them.                  *)
(***************************************************************************)
EXTENDS Integers, Sequences, FiniteSets, TLC

VARIABLES
    pc,       \* position of the running program
    text,     \* stdout captured from exiftool (a string)
    probe,    \* stdout captured from ffprobe (a sequence of JSON tokens)
    minfo,    \* the MInfo object, NoRecord before/without construction
    raised,   \* the exception that left the running function, NoExc if none
    result,   \* the last call: its name, its arguments and its outcome
    argv,     \* arguments given to _print_data: files, properties, keys
    disk,     \* per path: the tool outputs a run on that path captures
    out,      \* lines printed so far
    fixtures  \* unit test: which fixture files exist, what was built

vars == <<pc, text, probe, minfo, raised, result, argv, disk, out, fixtures>>

-----------------------------------------------------------------------------
(* Bounds of the model                                                      *)

MaxLen == 4        \* longest exiftool text explored exhaustively
MaxLines == 2      \* most lines in an exiftool output built from ExifLines
MaxStreams == 2    \* most stream descriptors in a probe output
MaxIndex == 2      \* largest stream_index handed to _find_data

-----------------------------------------------------------------------------
(* Python values                                                            *)

None == [typ |-> "None"]
Str(s) == [typ |-> "str", s |-> s]
IntV(n) == [typ |-> "int", n |-> n]

RECURSIVE Normal(_, _)
\* m / 10^e with trailing decimal zeros removed: one representative per number
Normal(m, e) ==
    IF e > 0 /\ m % 10 = 0 THEN Normal(m \div 10, e - 1)
    ELSE [typ |-> "float", m |-> m, e |-> e]

Float(m, e) == Normal(m, e)

IsStr(v) == v.typ = "str"
IsNone(v) == v.typ = "None"

\* outcome of a call: a returned value or a raised exception
Return(v) == [kind |-> "return", val |-> v]
Raise(e) == [kind |-> "raise", exc |-> e]
Returned(o) == o.kind = "return"

\* a local variable: x is evaluated once and F is applied to its value
With(x, F(_)) == CHOOSE r \in {F(v) : v \in {x}} : TRUE

NoExc == "NoExc"
NoRecord == [typ |-> "NoRecord"]
Unset == [kind |-> "unset"]
NoCall == [fn |-> "none", args |-> <<>>, outcome |-> Unset]
Dict(d) == [typ |-> "dict", d |-> d]
List(l) == [typ |-> "list", l |-> l]

-----------------------------------------------------------------------------
(* Python string operations (0-based indices, as in the source)             *)

Whitespace == {" ", "\t", "\r", "\n"}
Digits == {"0", "1", "2", "3", "4", "5", "6", "7", "8", "9"}

DigitVal(c) ==
    CASE c = "0" -> 0 [] c = "1" -> 1 [] c = "2" -> 2 [] c = "3" -> 3
      [] c = "4" -> 4 [] c = "5" -> 5 [] c = "6" -> 6 [] c = "7" -> 7
      [] c = "8" -> 8 [] c = "9" -> 9

Min(a, b) == IF a < b THEN a ELSE b
Max(a, b) == IF a > b THEN a ELSE b

\* s[lo:hi] for 0 <= lo, with hi possibly negative (counted from the end)
Slice(s, lo, hi) ==
    LET h == IF hi < 0 THEN Max(Len(s) + hi, 0) ELSE Min(hi, Len(s))
    IN  IF lo >= h THEN <<>> ELSE SubSeq(s, lo + 1, h)

\* s.find(c): index of the first c, -1 when there is none
find(s, c) ==
    IF \E i \in 1..Len(s) : s[i] = c
    THEN (CHOOSE i \in 1..Len(s) : s[i] = c /\ \A j \in 1..(i-1) : s[j] # c) - 1
    ELSE -1

\* s.strip(): from the first to the last character that is not whitespace
strip(s) ==
    With({i \in 1..Len(s) : s[i] \notin Whitespace}, LAMBDA keep :
        IF keep = {} THEN <<>>
        ELSE SubSeq(s, CHOOSE i \in keep : \A j \in keep : i <= j,
                       CHOOSE i \in keep : \A j \in keep : i >= j))

RECURSIVE split(_, _)
\* s.split(c): the pieces between occurrences of c, always at least one piece
split(s, c) ==
    With(find(s, c), LAMBDA i :
        IF i = -1 THEN <<s>>
        ELSE <<Slice(s, 0, i)>>
             \o With(Slice(s, i + 1, Len(s)), LAMBDA rest : split(rest, c)))

\* 'c' in s
Contains(s, c) == \E i \in 1..Len(s) : s[i] = c

-----------------------------------------------------------------------------
(* int() and float()                                                        *)

AllDigits(s) == s # <<>> /\ \A i \in 1..Len(s) : s[i] \in Digits

RECURSIVE DecValUpTo(_, _)
\* the number written by the first k digits of s
DecValUpTo(s, k) ==
    IF k = 0 THEN 0 ELSE 10 * DecValUpTo(s, k - 1) + DigitVal(s[k])

DecVal(s) == DecValUpTo(s, Len(s))

Signed(s) == s # <<>> /\ Head(s) \in {"+", "-"}
Unsign(s) == IF Signed(s) THEN Tail(s) ELSE s
SignOf(s) == IF s # <<>> /\ Head(s) = "-" THEN -1 ELSE 1

\* the decimal integer literals int() accepts, surrounding whitespace removed
IsIntLiteral(s) == AllDigits(Unsign(strip(s)))

\* the decimal point literals float() accepts: 12  12.  12.5  .5
IsFloatLiteral(s) ==
    LET u == Unsign(strip(s))
        p == find(u, ".")
    IN  IF p = -1 THEN AllDigits(u)
        ELSE LET ip == Slice(u, 0, p)
                 fp == Slice(u, p + 1, Len(u))
             IN  /\ ip \o fp # <<>>
                 /\ ip = <<>> \/ AllDigits(ip)
                 /\ fp = <<>> \/ AllDigits(fp)

\* int(value) for a str value
PyInt(v) ==
    IF IsIntLiteral(v.s)
    THEN Return(IntV(SignOf(strip(v.s)) * DecVal(Unsign(strip(v.s)))))
    ELSE Raise("ValueError")

\* float(value) for an int or a str value
PyFloat(v) ==
    IF v.typ = "int" THEN Return(Float(v.n, 0))
    ELSE IF v.typ = "float" THEN Return(v)
    ELSE IF IsFloatLiteral(v.s)
    THEN LET u == Unsign(strip(v.s))
             p == find(u, ".")
             ip == IF p = -1 THEN u ELSE Slice(u, 0, p)
             fp == IF p = -1 THEN <<>> ELSE Slice(u, p + 1, Len(u))
         IN  Return(Float(SignOf(strip(v.s)) * DecVal(ip \o fp), Len(fp)))
    ELSE Raise("ValueError")

-----------------------------------------------------------------------------
(* _exif_parser                                                             *)

\* one pass of "try: value = typ(value) / except ValueError: pass"
Try(o, value) == IF Returned(o) THEN o.val ELSE value

\* a loop that stops at the first conversion that succeeds
CoerceFirstOnly(value) ==
    IF Returned(PyInt(value)) THEN PyInt(value).val
    ELSE Try(PyFloat(value), value)

\* for typ in (int, float): both conversions are attempted, in this order,
\* the second one on whatever the first one left in value
Coerce(value) ==
    LET afterInt == Try(PyInt(value), value)
    IN  Try(PyFloat(afterInt), afterInt)

ParseLine(line) ==
    LET index == find(line, ":")
        key == strip(Slice(line, 0, index))
        value == strip(Slice(line, index + 1, Len(line)))
    IN  <<Str(key), Coerce(Str(value))>>

_exif_parser(data) ==
    LET lines == split(data, "\n")
    IN  [i \in 1..Len(lines) |-> ParseLine(lines[i])]

-----------------------------------------------------------------------------
(* json.loads, on the token sequence of the captured text                   *)

Tok(t) == [tok |-> t]
TString(s) == [tok |-> "string", s |-> s]
TNumber(n) == [tok |-> "number", n |-> n]
TNull == [tok |-> "null"]

NoParse == [ok |-> FALSE]
Parsed(v, rest) == [ok |-> TRUE, val |-> v, rest |-> rest]

RECURSIVE ParseValue(_)
RECURSIVE ParseMembers(_, _)
RECURSIVE ParseElements(_, _)

\* members of an object, ts starting at a member name; a repeated name keeps
\* the last value
ParseMembers(ts, d) ==
    IF Len(ts) < 2 \/ ts[1].tok # "string" \/ ts[2].tok # ":" THEN NoParse
    ELSE With(ParseValue(SubSeq(ts, 3, Len(ts))), LAMBDA v :
        IF ~v.ok \/ v.rest = <<>> THEN NoParse
        ELSE With([x \in DOMAIN d \cup {Str(ts[1].s)} |->
                      IF x = Str(ts[1].s) THEN v.val ELSE d[x]], LAMBDA d2 :
            IF Head(v.rest).tok = "}" THEN Parsed(Dict(d2), Tail(v.rest))
            ELSE IF Head(v.rest).tok = ","
                 THEN With(Tail(v.rest), LAMBDA rest : ParseMembers(rest, d2))
            ELSE NoParse))

\* elements of an array, ts starting at an element
ParseElements(ts, l) ==
    With(ParseValue(ts), LAMBDA v :
        IF ~v.ok \/ v.rest = <<>> THEN NoParse
        ELSE With(Append(l, v.val), LAMBDA l2 :
            IF Head(v.rest).tok = "]" THEN Parsed(List(l2), Tail(v.rest))
            ELSE IF Head(v.rest).tok = ","
                 THEN With(Tail(v.rest), LAMBDA rest : ParseElements(rest, l2))
            ELSE NoParse))

ParseValue(ts) ==
    IF ts = <<>> THEN NoParse
    ELSE With(Tail(ts), LAMBDA rest :
        CASE ts[1].tok = "string" -> Parsed(Str(ts[1].s), rest)
          [] ts[1].tok = "number" -> Parsed(IntV(ts[1].n), rest)
          [] ts[1].tok = "null" -> Parsed(None, rest)
          [] ts[1].tok = "{" ->
                IF rest # <<>> /\ rest[1].tok = "}"
                THEN Parsed(Dict(<<>>), Tail(rest))
                ELSE ParseMembers(rest, <<>>)
          [] ts[1].tok = "[" ->
                IF rest # <<>> /\ rest[1].tok = "]"
                THEN Parsed(List(<<>>), Tail(rest))
                ELSE ParseElements(rest, <<>>)
          [] OTHER -> NoParse)

json_loads(ts) ==
    With(ParseValue(ts), LAMBDA r :
        IF r.ok /\ r.rest = <<>> THEN Return(r.val)
        ELSE Raise("JSONDecodeError"))

\* probe[key], for the value json.loads returned
Subscript(v, key) ==
    IF v.typ # "dict" THEN Raise("TypeError")
    ELSE IF key \in DOMAIN v.d THEN Return(v.d[key])
    ELSE Raise("KeyError")

-----------------------------------------------------------------------------
(* Key names used by the source                                             *)

K_streams == Str(<<"s", "t", "r", "e", "a", "m", "s">>)
K_format == Str(<<"f", "o", "r", "m", "a", "t">>)
K_SourceImageWidth == Str(<<"S", "o", "u", "r", "c", "e", " ", "I", "m", "a",
    "g", "e", " ", "W", "i", "d", "t", "h">>)
K_SourceImageHeight == Str(<<"S", "o", "u", "r", "c", "e", " ", "I", "m",
    "a", "g", "e", " ", "H", "e", "i", "g", "h", "t">>)
K_width == Str(<<"w", "i", "d", "t", "h">>)
K_height == Str(<<"h", "e", "i", "g", "h", "t">>)
K_VideoFrameRate == Str(<<"V", "i", "d", "e", "o", " ", "F", "r", "a", "m",
    "e", " ", "R", "a", "t", "e">>)
K_r_frame_rate == Str(<<"r", "_", "f", "r", "a", "m", "e", "_", "r", "a",
    "t", "e">>)
K_Duration == Str(<<"D", "u", "r", "a", "t", "i", "o", "n">>)
K_duration == Str(<<"d", "u", "r", "a", "t", "i", "o", "n">>)
K_CameraModelName == Str(<<"C", "a", "m", "e", "r", "a", " ", "M", "o", "d",
    "e", "l", " ", "N", "a", "m", "e">>)
K_LensType == Str(<<"L", "e", "n", "s", " ", "T", "y", "p", "e">>)
K_Aperture == Str(<<"A", "p", "e", "r", "t", "u", "r", "e">>)
K_FocalLength == Str(<<"F", "o", "c", "a", "l", " ", "L", "e", "n", "g", "t",
    "h">>)
K_ISO == Str(<<"I", "S", "O">>)
K_ShutterSpeed == Str(<<"S", "h", "u", "t", "t", "e", "r", " ", "S", "p",
    "e", "e", "d">>)
K_ColorTempKelvin == Str(<<"C", "o", "l", "o", "r", " ", "T", "e", "m", "p",
    " ", "K", "e", "l", "v", "i", "n">>)
K_WhiteBalance == Str(<<"W", "h", "i", "t", "e", " ", "B", "a", "l", "a",
    "n", "c", "e">>)

-----------------------------------------------------------------------------
(* The unified lookup                                                       *)

Tuple(x, y) == [typ |-> "tuple", t |-> <<x, y>>]

\* for exif_key, exif_value in minfo.exif: the first entry with the key
_exif_data(m, key) ==
    LET hits == {i \in 1..Len(m.exif) : m.exif[i][1] = key}
    IN  IF hits = {} THEN None
        ELSE m.exif[CHOOSE i \in hits : \A j \in hits : i <= j][2]

\* the subscript without its try/except
_stream_data_unguarded(m, stream_index, key) ==
    IF stream_index >= Len(m.streams.l) THEN Raise("IndexError")
    ELSE IF key \in DOMAIN m.streams.l[stream_index + 1].d
         THEN Return(m.streams.l[stream_index + 1].d[key])
    ELSE Return(None)

\* minfo.streams[stream_index], IndexError caught, then stream.get(key)
_stream_data(m, stream_index, key) ==
    IF m.streams.typ = "list"
    THEN LET n == Len(m.streams.l)
             i == IF stream_index < 0 THEN n + stream_index ELSE stream_index
         IN  IF i < 0 \/ i >= n THEN Return(None)
             ELSE LET stream == m.streams.l[i + 1]
                  IN  IF stream.typ # "dict" THEN Raise("AttributeError")
                      ELSE IF key \in DOMAIN stream.d
                           THEN Return(stream.d[key])
                      ELSE Return(None)
    ELSE IF m.streams.typ = "dict" THEN Raise("KeyError")
    ELSE Raise("TypeError")

\* the two tiers consulted in the opposite order
_find_data_stream_first(m, keys, stream_index) ==
    With(_stream_data(m, stream_index, keys[2]), LAMBDA data :
        IF Returned(data) /\ IsNone(data.val) THEN Return(_exif_data(m, keys[1]))
        ELSE data)

_find_data(m, keys, stream_index) ==
    With(_exif_data(m, keys[1]), LAMBDA data :
        IF IsNone(data) THEN _stream_data(m, stream_index, keys[2])
        ELSE Return(data))

-----------------------------------------------------------------------------
(* The derived properties of MInfo                                          *)

\* the pair returned whatever it holds
resolution_always_pair(m) ==
    With(_find_data(m, <<K_SourceImageWidth, K_width>>, 0), LAMBDA xres :
    With(_find_data(m, <<K_SourceImageHeight, K_height>>, 0), LAMBDA yres :
        IF ~Returned(xres) THEN xres
        ELSE IF ~Returned(yres) THEN yres
        ELSE Return(Tuple(xres.val, yres.val))))

resolution(m) ==
    With(_find_data(m, <<K_SourceImageWidth, K_width>>, 0), LAMBDA xres :
    With(_find_data(m, <<K_SourceImageHeight, K_height>>, 0), LAMBDA yres :
        IF ~Returned(xres) THEN xres
        ELSE IF ~Returned(yres) THEN yres
        ELSE IF Tuple(xres.val, yres.val) # Tuple(None, None)
             THEN Return(Tuple(xres.val, yres.val))
        ELSE Return(None)))

fps(m) == _find_data(m, <<K_VideoFrameRate, K_r_frame_rate>>, 0)

\* 's' in duration
ContainsS(v) ==
    CASE v.typ = "str" -> Return(Contains(v.s, "s"))
      [] v.typ = "dict" -> Return(Str(<<"s">>) \in DOMAIN v.d)
      [] v.typ = "list" ->
            Return(\E i \in 1..Len(v.l) : v.l[i] = Str(<<"s">>))
      [] OTHER -> Raise("TypeError")

duration(m) ==
    With(_find_data(m, <<K_Duration, K_duration>>, 0), LAMBDA found :
        IF ~Returned(found) \/ IsNone(found.val) THEN found
        ELSE With(ContainsS(found.val), LAMBDA has :
            IF ~Returned(has) THEN has
            ELSE IF ~has.val THEN found
            ELSE IF found.val.typ # "str" THEN Raise("TypeError")
            ELSE PyFloat(Str(Slice(found.val.s, 0, -1)))))

camera_model(m) == _find_data(m, <<K_CameraModelName, None>>, 0)
camera_lens(m) == _find_data(m, <<K_LensType, None>>, 0)
aperture(m) == _find_data(m, <<K_Aperture, None>>, 0)
focal_length(m) == _find_data(m, <<K_FocalLength, None>>, 0)
iso(m) == _find_data(m, <<K_ISO, None>>, 0)
shutter_speed(m) == _find_data(m, <<K_ShutterSpeed, None>>, 0)
color_temp(m) == _find_data(m, <<K_ColorTempKelvin, None>>, 0)
white_balance(m) == _find_data(m, <<K_WhiteBalance, None>>, 0)

PropertyNames ==
    {"resolution", "fps", "duration", "camera_model", "camera_lens",
     "aperture", "focal_length", "iso", "shutter_speed", "color_temp",
     "white_balance"}

FieldNames == {"path", "exif", "streams", "format"}

\* getattr(minfo, name): a property is computed, a field is read, any other
\* name is an AttributeError
getattr(m, name) ==
    CASE name = "resolution" -> resolution(m)
      [] name = "fps" -> fps(m)
      [] name = "duration" -> duration(m)
      [] name = "camera_model" -> camera_model(m)
      [] name = "camera_lens" -> camera_lens(m)
      [] name = "aperture" -> aperture(m)
      [] name = "focal_length" -> focal_length(m)
      [] name = "iso" -> iso(m)
      [] name = "shutter_speed" -> shutter_speed(m)
      [] name = "color_temp" -> color_temp(m)
      [] name = "white_balance" -> white_balance(m)
      [] name = "path" -> Return(m.path)
      [] name = "exif" -> Return([typ |-> "tuple", t |-> m.exif])
      [] name = "streams" -> Return(m.streams)
      [] name = "format" -> Return(m.format)
      [] OTHER -> Raise("AttributeError")

-----------------------------------------------------------------------------
(* MInfo(path): __init__ and _setup                                         *)

\* a constructor that swallows the parse error and keeps an empty probe
MInfo_lenient(path, exifOut, probeOut) ==
    With(json_loads(probeOut), LAMBDA loaded :
        IF ~Returned(loaded)
        THEN Return([typ |-> "MInfo", path |-> path,
                     exif |-> _exif_parser(exifOut),
                     streams |-> List(<<>>), format |-> Dict(<<>>)])
        ELSE With(Subscript(loaded.val, K_streams), LAMBDA streams :
             With(Subscript(loaded.val, K_format), LAMBDA format :
                 IF ~Returned(streams) THEN streams
                 ELSE IF ~Returned(format) THEN format
                 ELSE Return([typ |-> "MInfo", path |-> path,
                              exif |-> _exif_parser(exifOut),
                              streams |-> streams.val,
                              format |-> format.val]))))

\* exifOut and probeOut are what _subproc captures from the two tools
MInfo(path, exifOut, probeOut) ==
    With(_exif_parser(exifOut), LAMBDA exif :
    With(json_loads(probeOut), LAMBDA loaded :
        IF ~Returned(loaded) THEN loaded
        ELSE With(Subscript(loaded.val, K_streams), LAMBDA streams :
             With(Subscript(loaded.val, K_format), LAMBDA format :
                 IF ~Returned(streams) THEN streams
                 ELSE IF ~Returned(format) THEN format
                 ELSE Return([typ |-> "MInfo", path |-> path, exif |-> exif,
                              streams |-> streams.val,
                              format |-> format.val])))))

-----------------------------------------------------------------------------
(* What the two tools print                                                 *)

\* lines of exiftool output; Duration is printed with three kinds of value
ExifLines ==
    { <<"D", "u", "r", "a", "t", "i", "o", "n", " ", " ", " ", " ", " ", " ",
        " ", " ", " ", " ", " ", " ", " ", " ", " ", " ", " ", " ", " ", " ",
            " ", " ", " ", " ", ":", " ", "2", ".", "5", " ", "s">>,
      <<"D", "u", "r", "a", "t", "i", "o", "n", " ", ":", " ", "7">>,
      <<"D", "u", "r", "a", "t", "i", "o", "n", " ", ":", " ", "3", " ", "s",
          "e", "c">>,
      <<"S", "o", "u", "r", "c", "e", " ", "I", "m", "a", "g", "e", " ", "W",
          "i", "d", "t", "h", " ", " ", " ", " ", " ", " ", " ", " ", " ",
              " ", " ", " ", " ", " ", ":", " ", "1", "2", "8", "0">>,
      <<"S", "o", "u", "r", "c", "e", " ", "I", "m", "a", "g", "e", " ", "H",
          "e", "i", "g", "h", "t", " ", " ", " ", " ", " ", " ", " ", " ",
              " ", " ", " ", " ", " ", ":", " ", "7", "2", "0">> }

RECURSIVE SeqsUpTo(_, _)
\* the sequences over S of length at most n
SeqsUpTo(S, n) ==
    IF n = 0 THEN {<<>>}
    ELSE LET shorter == SeqsUpTo(S, n - 1)
         IN  shorter \cup {Append(q, x) : q \in shorter, x \in S}

RECURSIVE Lines(_)
\* exiftool ends every line it prints with a newline
Lines(ls) == IF ls = <<>> THEN <<>> ELSE Head(ls) \o <<"\n">> \o Lines(Tail(ls))

ExifOutputs == {Lines(ls) : ls \in SeqsUpTo(ExifLines, MaxLines)}

RECURSIVE Joined(_, _)
Joined(parts, sep) ==
    IF parts = <<>> THEN <<>>
    ELSE IF Len(parts) = 1 THEN parts[1]
    ELSE parts[1] \o sep \o Joined(Tail(parts), sep)

\* stream objects as ffprobe prints them
VideoStream ==
    << Tok("{"), TString(<<"w", "i", "d", "t", "h">>), Tok(":"),
        TNumber(640), Tok(","),
       TString(<<"h", "e", "i", "g", "h", "t">>), Tok(":"), TNumber(480),
           Tok(","),
       TString(<<"r", "_", "f", "r", "a", "m", "e", "_", "r", "a", "t",
           "e">>), Tok(":"), TString(<<"3", "0", "/", "1">>), Tok(","),
       TString(<<"d", "u", "r", "a", "t", "i", "o", "n">>), Tok(":"),
           TString(<<"1", "0", ".", "0", "2">>), Tok("}") >>

AudioStream ==
    << Tok("{"), TString(<<"r", "_", "f", "r", "a", "m", "e", "_", "r", "a",
        "t", "e">>), Tok(":"), TString(<<"0", "/", "0">>),
       Tok(","), TString(<<"d", "u", "r", "a", "t", "i", "o", "n">>),
           Tok(":"), TString(<<"9", " ", "s">>),
       Tok("}") >>

StreamObjects == {VideoStream, AudioStream}

ProbeDocument(streams) ==
    << Tok("{"), TString(<<"s", "t", "r", "e", "a", "m", "s">>), Tok(":"),
        Tok("[") >>
    \o Joined(streams, <<Tok(",")>>)
    \o << Tok("]"), Tok(","), TString(<<"f", "o", "r", "m", "a", "t">>),
        Tok(":"), Tok("{"),
          TString(<<"d", "u", "r", "a", "t", "i", "o", "n">>), Tok(":"),
              TString(<<"1", "0", ".", "0", "2">>), Tok("}"),
          Tok("}") >>

ValidProbes == {ProbeDocument(ss) : ss \in SeqsUpTo(StreamObjects, MaxStreams)}

\* output cut short: a document of at most one stream without its last tokens
TruncatedProbes ==
    {SubSeq(d, 1, Len(d) - k) :
        d \in {ProbeDocument(ss) : ss \in SeqsUpTo(StreamObjects, 1)},
        k \in {1, 5}}

\* nothing printed at all, and the empty object printed for an unreadable file
EmptyProbe == <<>>
EmptyObjectProbe == << Tok("{"), Tok("}") >>

ProbeOutputs == ValidProbes \cup TruncatedProbes \cup {EmptyProbe, EmptyObjectProbe}

\* key pairs handed to _find_data
KeyPairs ==
    { <<K_Duration, K_duration>>,
      <<K_SourceImageWidth, K_width>>,
      <<K_ISO, None>> }

-----------------------------------------------------------------------------
(* Spec: one MInfo object, constructed and then queried                     *)

Idle ==
    /\ argv = <<>>
    /\ disk = <<>>
    /\ out = <<>>
    /\ fixtures = <<>>

Init ==
    /\ pc = "new"
    /\ text \in ExifOutputs
    /\ probe \in ProbeOutputs
    /\ minfo = NoRecord
    /\ raised = NoExc
    /\ result = NoCall
    /\ Idle

\* minfo = MInfo(path)
Construct ==
    /\ pc = "new"
    /\ \E made \in {MInfo("a.mov", text, probe)} :
          IF Returned(made)
          THEN /\ minfo' = made.val
               /\ pc' = "ready"
               /\ raised' = NoExc
          ELSE /\ minfo' = NoRecord
               /\ pc' = "failed"
               /\ raised' = made.exc
    /\ UNCHANGED <<text, probe, result, argv, disk, out, fixtures>>

\* a lookup that consumes the EXIF entries it iterates over
GetPropertyConsuming ==
    /\ pc = "ready"
    /\ \E name \in PropertyNames :
          result' = [fn |-> name, args |-> <<>>, outcome |-> getattr(minfo, name)]
    /\ minfo' = [minfo EXCEPT !.exif = <<>>]
    /\ UNCHANGED <<pc, text, probe, raised, argv, disk, out, fixtures>>

\* minfo.<name> for one of the properties
GetProperty ==
    /\ pc = "ready"
    /\ \E name \in PropertyNames :
          result' = [fn |-> name, args |-> <<>>, outcome |-> getattr(minfo, name)]
    /\ UNCHANGED <<pc, text, probe, minfo, raised, argv, disk, out, fixtures>>

\* _find_data(minfo, keys, stream_index)
FindData ==
    /\ pc = "ready"
    /\ \E keys \in KeyPairs, stream_index \in 0..MaxIndex :
          result' = [fn |-> "_find_data", args |-> <<keys, stream_index>>,
                     outcome |-> _find_data(minfo, keys, stream_index)]
    /\ UNCHANGED <<pc, text, probe, minfo, raised, argv, disk, out, fixtures>>

Next == Construct \/ GetProperty \/ FindData

Spec == Init /\ [][Next]_vars

-----------------------------------------------------------------------------
(* SpecParser: _exif_parser applied to every short text                     *)

Alphabet == {"0", "1", ".", ":", " ", "a", "\n"}

InitParser ==
    /\ pc = "parse"
    /\ text \in SeqsUpTo(Alphabet, MaxLen)
    /\ probe = <<>>
    /\ minfo = NoRecord
    /\ raised = NoExc
    /\ result = NoCall
    /\ Idle

\* exif = _exif_parser(data)
ExifParser ==
    /\ pc = "parse"
    /\ pc' = "parsed"
    /\ result' = [fn |-> "_exif_parser", args |-> <<text>>,
                  outcome |-> Return(_exif_parser(text))]
    /\ UNCHANGED <<text, probe, minfo, raised, argv, disk, out, fixtures>>

NextParser == ExifParser

SpecParser == InitParser /\ [][NextParser]_vars

\* the lines of the parsed text, and what stands after the first colon of one
TextLines == split(text, "\n")
RawValue(line) == strip(Slice(line, find(line, ":") + 1, Len(line)))
RawKey(line) == strip(Slice(line, 0, find(line, ":")))
HasColon(line) == find(line, ":") # -1
Entries == result.outcome.val

-----------------------------------------------------------------------------
(* Claims about _exif_parser, stated over SpecParser                        *)

\* C4, as stated: a value that parses as an integer is stored as an integer
\* (the first successful coercion is kept).
C4_IntegerKept ==
    pc = "parsed" =>
        \A i \in 1..Len(TextLines) :
            HasColon(TextLines[i]) /\ IsIntLiteral(RawValue(TextLines[i]))
                => Entries[i][2].typ = "int"

\* C4, amended: every line gives one entry; for a line with a colon the key is
\* the trimmed text before the first colon, and the value is the trimmed text
\* after it, stored as a float whenever int() or float() accepts it (an
\* integer literal too, because float() is applied after int()), and as the
\* trimmed string otherwise.
C4_CoercionOrder ==
    pc = "parsed" =>
        /\ Len(Entries) = Len(TextLines)
        /\ \A i \in 1..Len(TextLines) :
              HasColon(TextLines[i]) =>
                  /\ Entries[i][1] = Str(RawKey(TextLines[i]))
                  /\ IF IsFloatLiteral(RawValue(TextLines[i]))
                     THEN /\ Entries[i][2].typ = "float"
                          /\ Entries[i][2] = PyFloat(Str(RawValue(TextLines[i]))).val
                     ELSE Entries[i][2] = Str(RawValue(TextLines[i]))

\* a parsed line whose value is an integer literal, stored as a float
C4_Witness ==
    /\ pc = "parsed"
    /\ \E i \in 1..Len(TextLines) :
          /\ HasColon(TextLines[i])
          /\ IsIntLiteral(RawValue(TextLines[i]))
          /\ Entries[i][2].typ = "float"

\* C10: the empty text parses to the empty sequence, and in general there is
\* one entry per line of the form Key : Value and none for any other line.
C10_EmptyInput ==
    pc = "parsed" =>
        /\ text = <<>> => Entries = <<>>
        /\ Len(Entries) =
              Cardinality({i \in 1..Len(TextLines) : HasColon(TextLines[i])})

-----------------------------------------------------------------------------
(* Claims about the MInfo object, stated over Spec                          *)

\* positions of the EXIF entries with a given key
Hits(m, key) == {i \in 1..Len(m.exif) : m.exif[i][1] = key}
FirstHit(m, key) == CHOOSE i \in Hits(m, key) : \A j \in Hits(m, key) : i <= j

\* the value a stream descriptor holds under a key, None without descriptor
\* or key
StreamValue(m, index, key) ==
    IF index < Len(m.streams.l) /\ key \in DOMAIN m.streams.l[index + 1].d
    THEN m.streams.l[index + 1].d[key]
    ELSE None

\* the lookup as the claims describe it: EXIF first, then the stream
Lookup(m, exifKey, streamKey, index) ==
    IF Hits(m, exifKey) # {} THEN m.exif[FirstHit(m, exifKey)][2]
    ELSE StreamValue(m, index, streamKey)

\* C1: when an EXIF entry has the key, _find_data returns the value of the
\* first such entry, whatever the streams hold.
C1_ExifPrecedence ==
    result.fn = "_find_data" =>
        LET exifKey == result.args[1][1]
        IN  Hits(minfo, exifKey) # {} =>
                result.outcome = Return(minfo.exif[FirstHit(minfo, exifKey)][2])

\* a lookup that found its key twice in EXIF, with two values, while stream 0
\* holds a third value under the stream key
C1_Witness ==
    /\ result.fn = "_find_data"
    /\ result.args[2] = 0
    /\ \E i, j \in Hits(minfo, result.args[1][1]) :
          i < j /\ minfo.exif[i][2] # minfo.exif[j][2]
    /\ ~IsNone(StreamValue(minfo, 0, result.args[1][2]))
    /\ Return(StreamValue(minfo, 0, result.args[1][2])) # result.outcome

\* C2: when no EXIF entry has the key, _find_data returns what the stream
\* descriptor at the index holds under the stream key, and None (no error)
\* when the index is past the last stream or the key is missing or None.
C2_FallThrough ==
    result.fn = "_find_data" =>
        LET keys == result.args[1]
        IN  Hits(minfo, keys[1]) = {} =>
                result.outcome = Return(StreamValue(minfo, result.args[2], keys[2]))

\* a lookup past the last stream descriptor that returned None
C2_Witness ==
    /\ result.fn = "_find_data"
    /\ Hits(minfo, result.args[1][1]) = {}
    /\ result.args[2] >= Len(minfo.streams.l)
    /\ result.outcome = Return(None)

\* C3: resolution is None exactly when both lookups are None, and otherwise
\* the pair of the two lookup results; it is never the pair (None, None).
C3_ResolutionAbsentPair ==
    result.fn = "resolution" =>
        LET xres == Lookup(minfo, K_SourceImageWidth, K_width, 0)
            yres == Lookup(minfo, K_SourceImageHeight, K_height, 0)
        IN  /\ result.outcome # Return(Tuple(None, None))
            /\ (result.outcome = Return(None)) <=> (IsNone(xres) /\ IsNone(yres))
            /\ ~(IsNone(xres) /\ IsNone(yres))
                   => result.outcome = Return(Tuple(xres, yres))

\* resolution read on a record with neither width nor height
C3_Witness ==
    /\ result.fn = "resolution"
    /\ IsNone(Lookup(minfo, K_SourceImageWidth, K_width, 0))
    /\ IsNone(Lookup(minfo, K_SourceImageHeight, K_height, 0))
    /\ result.outcome = Return(None)

\* C5: duration is the lookup of (Duration, duration); a string ending in s
\* is returned without the suffix, parsed as a float; anything else (None, a
\* number, a string not ending in s) is returned as it is, without error.
C5_DurationPassThrough ==
    result.fn = "duration" =>
        LET d == Lookup(minfo, K_Duration, K_duration, 0)
        IN  result.outcome =
                IF d.typ = "str" /\ d.s # <<>> /\ d.s[Len(d.s)] = "s"
                THEN PyFloat(Str(Slice(d.s, 0, -1)))
                ELSE Return(d)

C7_MalformedProbeFatal ==
    (pc # "new" /\ probe \in TruncatedProbes \cup {EmptyProbe}) =>
        /\ pc = "failed"
        /\ raised = "JSONDecodeError"
        /\ minfo = NoRecord

\* a construction attempted on empty probe output
C7_Witness ==
    /\ pc = "failed"
    /\ probe = EmptyProbe
    /\ raised = "JSONDecodeError"

-----------------------------------------------------------------------------
(* str() and repr() of the values that get printed                          *)

DigitChar(d) ==
    CASE d = 0 -> "0" [] d = 1 -> "1" [] d = 2 -> "2" [] d = 3 -> "3"
      [] d = 4 -> "4" [] d = 5 -> "5" [] d = 6 -> "6" [] d = 7 -> "7"
      [] d = 8 -> "8" [] d = 9 -> "9"

RECURSIVE NatDigits(_)
NatDigits(n) ==
    IF n < 10 THEN <<DigitChar(n)>>
    ELSE Append(NatDigits(n \div 10), DigitChar(n % 10))

Abs(n) == IF n < 0 THEN -n ELSE n
Minus(n) == IF n < 0 THEN <<"-">> ELSE <<>>

RECURSIVE Zeros(_)
Zeros(n) == IF n <= 0 THEN <<>> ELSE <<"0">> \o Zeros(n - 1)

\* the shortest decimal form with at least one digit on each side of the point
StrFloat(v) ==
    LET ds == NatDigits(Abs(v.m))
        padded == Zeros(v.e + 1 - Len(ds)) \o ds
        cut == Len(padded) - v.e
    IN  Minus(v.m) \o
        ( IF v.e = 0 THEN ds \o <<".", "0">>
          ELSE SubSeq(padded, 1, cut) \o <<".">>
                   \o SubSeq(padded, cut + 1, Len(padded)) )

StrScalar(v) ==
    CASE v.typ = "None" -> <<"N", "o", "n", "e">>
      [] v.typ = "str" -> v.s
      [] v.typ = "int" -> Minus(v.n) \o NatDigits(Abs(v.n))
      [] v.typ = "float" -> StrFloat(v)

PyRepr(v) == IF v.typ = "str" THEN <<"'">> \o v.s \o <<"'">> ELSE StrScalar(v)

PyStr(v) ==
    IF v.typ = "tuple"
    THEN <<"(">> \o PyRepr(v.t[1]) \o <<",",
        " ">> \o PyRepr(v.t[2]) \o <<")">>
    ELSE StrScalar(v)

-----------------------------------------------------------------------------
(* _print_data                                                              *)

\* print(minfo.path) and print("\t%s: %s" % (name, value))
PathLine(path) == [path |-> path]
PropertyLine(name, value) == [prop |-> name, value |-> PyStr(value)]
KeyLine(key, value) == [key |-> key, value |-> PyStr(value)]

\* what a function has printed when it ends, and the exception that ended it
Printed(lines, exc) == [lines |-> lines, exc |-> exc]

\* hasattr(minfo, name): False on AttributeError only, any other exception
\* leaves hasattr
hasattr(m, name) ==
    With(getattr(m, name), LAMBDA got :
        IF Returned(got) THEN Return(TRUE)
        ELSE IF got.exc = "AttributeError" THEN Return(FALSE)
        ELSE got)

RECURSIVE PrintProperties(_, _)
\* for prop in properties
PrintProperties(m, properties) ==
    IF properties = <<>> THEN Printed(<<>>, NoExc)
    ELSE With(hasattr(m, Head(properties)), LAMBDA has :
        IF ~Returned(has) THEN Printed(<<>>, has.exc)
        ELSE IF ~has.val THEN PrintProperties(m, Tail(properties))
        ELSE With(getattr(m, Head(properties)), LAMBDA got :
            IF ~Returned(got) THEN Printed(<<>>, got.exc)
            ELSE With(PrintProperties(m, Tail(properties)), LAMBDA more :
                Printed(<<PropertyLine(Head(properties), got.val)>>
                            \o more.lines, more.exc))))

RECURSIVE PrintKeys(_, _)
\* for key in keys
PrintKeys(m, keys) ==
    IF keys = <<>> THEN Printed(<<>>, NoExc)
    ELSE With(_find_data(m, <<Head(keys), Head(keys)>>, 0), LAMBDA value :
        IF ~Returned(value) THEN Printed(<<>>, value.exc)
        ELSE With(PrintKeys(m, Tail(keys)), LAMBDA more :
            Printed(<<KeyLine(Head(keys), value.val)>> \o more.lines,
                    more.exc)))

\* one pass of the loop over files: the record is built, its path, the
\* properties and the keys are printed
PrintFile(d, fi, properties, keys) ==
    With(MInfo(fi, d[fi].exif, d[fi].probe), LAMBDA made :
        IF ~Returned(made) THEN Printed(<<>>, made.exc)
        ELSE With(PrintProperties(made.val, properties), LAMBDA props :
            IF props.exc # NoExc
            THEN Printed(<<PathLine(fi)>> \o props.lines, props.exc)
            ELSE With(PrintKeys(made.val, keys), LAMBDA ks :
                Printed(<<PathLine(fi)>> \o props.lines \o ks.lines,
                        ks.exc))))

RECURSIVE PrintFiles(_, _, _, _)
\* for fi in files; d gives the tool outputs captured for each path
PrintFiles(d, files, properties, keys) ==
    IF files = <<>> THEN Printed(<<>>, NoExc)
    ELSE With(PrintFile(d, Head(files), properties, keys), LAMBDA one :
        IF one.exc # NoExc THEN one
        ELSE With(PrintFiles(d, Tail(files), properties, keys), LAMBDA more :
            Printed(one.lines \o more.lines, more.exc)))

_print_data(d, files, properties, keys) == PrintFiles(d, files, properties, keys)

-----------------------------------------------------------------------------
(* SpecCli: the command line printer run on files, properties and keys      *)

MaxFiles == 2      \* most file arguments
MaxProps == 2      \* most names after -p
MaxKeys == 1       \* most names after -k

Paths == {"a.mov", "b.wav"}

\* the outputs the two tools give for a file: a clip with camera tags, a clip
\* whose Duration tag has no unit, a file without tags
FileOutputs ==
    { [exif |-> Lines(<< <<"D", "u", "r", "a", "t", "i", "o", "n", " ", ":",
        " ", "2", ".", "5", " ", "s">>, <<"I", "S", "O", " ", ":", " ", "1",
            "0", "0">> >>),
       probe |-> ProbeDocument(<<VideoStream, AudioStream>>)],
      [exif |-> Lines(<< <<"D", "u", "r", "a", "t", "i", "o", "n", " ", ":",
          " ", "7">> >>),
       probe |-> ProbeDocument(<<VideoStream>>)],
      [exif |-> <<>>,
       probe |-> ProbeDocument(<<AudioStream>>)] }

PropertyArgs == {"duration", "iso", "resolution", "f_stop"}
KeyArgs == {K_Duration, K_r_frame_rate, Str(<<"M", "a", "k", "e">>)}

InitCli ==
    /\ pc = "cli"
    /\ argv \in [files : SeqsUpTo(Paths, MaxFiles),
                 properties : SeqsUpTo(PropertyArgs, MaxProps),
                 keys : SeqsUpTo(KeyArgs, MaxKeys)]
    /\ argv.files # <<>>
    /\ disk \in [Paths -> FileOutputs]
    /\ out = <<>>
    /\ raised = NoExc
    /\ text = <<>>
    /\ probe = <<>>
    /\ minfo = NoRecord
    /\ result = NoCall
    /\ fixtures = <<>>

\* _print_data(args.files, properties, keys)
PrintData ==
    /\ pc = "cli"
    /\ \E printed \in {_print_data(disk, argv.files, argv.properties, argv.keys)} :
          /\ out' = printed.lines
          /\ raised' = printed.exc
    /\ pc' = "exit"
    /\ UNCHANGED <<text, probe, minfo, result, argv, disk, fixtures>>

NextCli == PrintData

SpecCli == InitCli /\ [][NextCli]_vars

\* C8: for each file in order: its path, then one line per requested property
\* the record exposes, in requested order, then one line per requested key,
\* in requested order, whose value is the lookup of (key, key) in stream 0.
Exposed(name) == name \in PropertyNames \cup FieldNames

\* a printed line without its value
Label(line) ==
    IF "path" \in DOMAIN line THEN line
    ELSE IF "prop" \in DOMAIN line THEN [prop |-> line.prop]
    ELSE [key |-> line.key]

RECURSIVE ExpectedLabels(_)
ExpectedLabels(files) ==
    IF files = <<>> THEN <<>>
    ELSE LET props == SelectSeq(argv.properties, Exposed)
         IN  <<PathLine(Head(files))>>
             \o [i \in 1..Len(props) |-> [prop |-> props[i]]]
             \o [i \in 1..Len(argv.keys) |-> [key |-> argv.keys[i]]]
             \o ExpectedLabels(Tail(files))

RECURSIVE ExpectedKeyValues(_)
ExpectedKeyValues(files) ==
    IF files = <<>> THEN <<>>
    ELSE LET fi == Head(files)
             m == MInfo(fi, disk[fi].exif, disk[fi].probe).val
         IN  [i \in 1..Len(argv.keys) |->
                 PyStr(Lookup(m, argv.keys[i], argv.keys[i], 0))]
             \o ExpectedKeyValues(Tail(files))

PrintedKeyValues ==
    LET isKey(line) == "key" \in DOMAIN line
        ls == SelectSeq(out, isKey)
    IN  [i \in 1..Len(ls) |-> ls[i].value]

C8_PrintOrder ==
    pc = "exit" =>
        /\ [i \in 1..Len(out) |-> Label(out[i])] = ExpectedLabels(argv.files)
        /\ PrintedKeyValues = ExpectedKeyValues(argv.files)

-----------------------------------------------------------------------------
(* The unit test: fixture set-up, the three tests, the clean-up             *)

WavPath == "fixture.wav"
MovPath == "fixture.mov"

\* a == b for the values the tests compare
RECURSIVE PyEq(_, _)
PyEq(a, b) ==
    LET num(v) == IF v.typ = "int" THEN Float(v.n, 0) ELSE v
    IN  IF a.typ \in {"int", "float"} /\ b.typ \in {"int", "float"}
        THEN num(a) = num(b)
        ELSE IF a.typ = "tuple" /\ b.typ = "tuple"
        THEN /\ Len(a.t) = Len(b.t)
             /\ \A i \in 1..Len(a.t) : PyEq(a.t[i], b.t[i])
        ELSE a = b

\* assert minfo.<name> == expected
AssertEq(m, name, expected) ==
    With(getattr(m, name), LAMBDA got :
        IF ~Returned(got) THEN got.exc
        ELSE IF PyEq(got.val, expected) THEN NoExc
        ELSE "AssertionError")

\* the first exception of a sequence of statements, NoExc when all pass
FirstExc(excs) ==
    IF \A i \in 1..Len(excs) : excs[i] = NoExc THEN NoExc
    ELSE excs[CHOOSE i \in 1..Len(excs) :
                 excs[i] # NoExc /\ \A j \in 1..(i - 1) : excs[j] = NoExc]

_test_attributes(m) ==
    IF m.streams.typ = "list" /\ m.format.typ = "dict" THEN NoExc
    ELSE "AssertionError"

_test_movie_data(m) ==
    FirstExc(<< AssertEq(m, "resolution", Tuple(IntV(1280), IntV(720))),
                AssertEq(m, "fps", IntV(30)),
                AssertEq(m, "duration", Float(1002, 2)) >>)

_test_audio_data(m) ==
    FirstExc(<< AssertEq(m, "resolution", None),
                AssertEq(m, "fps", Str(<<"0", "/", "0">>)),
                AssertEq(m, "duration", Float(10, 0)) >>)

\* the body of the try block of _unittest
RunAllTests(mov, wav) ==
    FirstExc(<< _test_attributes(mov), _test_movie_data(mov),
                _test_audio_data(wav), _test_audio_data(wav) >>)

\* _cleanup(files): every listed file that exists is removed
_cleanup(exists, files) == exists \ files

\* _set_up: soxMade and ffmpegMade tell whether each generator left its file
\* behind; movOut and wavOut are what the two tools print for the two paths
\* when the records are constructed
_set_up(soxMade, ffmpegMade, movOut, wavOut) ==
    IF ~soxMade
    THEN [generated |-> {}, exists |-> {}, built |-> <<>>,
          exc |-> "IOError", records |-> NoRecord]
    ELSE With([generated |-> IF ffmpegMade THEN {WavPath, MovPath}
                             ELSE {WavPath},
               \* except IOError: os.remove(wav), and the function goes on
               exists |-> IF ffmpegMade THEN {WavPath, MovPath} ELSE {}],
              LAMBDA files :
         With(MInfo(MovPath, movOut.exif, movOut.probe), LAMBDA mov :
             IF ~Returned(mov)
             THEN [generated |-> files.generated, exists |-> files.exists,
                   built |-> <<MovPath>>, exc |-> mov.exc,
                   records |-> NoRecord]
             ELSE With(MInfo(WavPath, wavOut.exif, wavOut.probe), LAMBDA wav :
                 IF ~Returned(wav)
                 THEN [generated |-> files.generated, exists |-> files.exists,
                       built |-> <<MovPath, WavPath>>, exc |-> wav.exc,
                       records |-> NoRecord]
                 ELSE [generated |-> files.generated, exists |-> files.exists,
                       built |-> <<MovPath, WavPath>>, exc |-> NoExc,
                       records |-> <<mov.val, wav.val>>])))

\* what exiftool prints for a fixture, depending on the tool's version
FixtureExif ==
    { Lines(<< <<"S", "o", "u", "r", "c", "e", " ", "I", "m", "a", "g", "e",
        " ", "W", "i", "d", "t", "h", " ", ":", " ", "1", "2", "8", "0">>,
            <<"S", "o", "u", "r", "c", "e", " ", "I", "m", "a", "g", "e",
                " ", "H", "e", "i", "g", "h", "t", " ", ":", " ", "7", "2",
                    "0">>,
               <<"V", "i", "d", "e", "o", " ", "F", "r", "a", "m", "e", " ",
                   "R", "a", "t", "e", " ", ":", " ", "3", "0">>, <<"D", "u",
                       "r", "a", "t", "i", "o", "n", " ", ":", " ", "1", "0",
                           ".", "0", "2", " ", "s">> >>),
      Lines(<< <<"D", "u", "r", "a", "t", "i", "o", "n", " ", ":", " ", "1",
          "0", ".", "0", "0", " ", "s">> >>),
      Lines(<< <<"D", "u", "r", "a", "t", "i", "o", "n", " ", ":", " ",
          "7">> >>),
      Lines(<< <<"D", "u", "r", "a", "t", "i", "o", "n", " ", ":", " ", "2",
          ".", "5", " ", "s">>, <<"I", "S", "O", " ", ":", " ", "1", "0",
              "0">> >>),
      <<>> }

FixtureProbes ==
    { ProbeDocument(<<VideoStream, AudioStream>>),
      ProbeDocument(<<AudioStream>>),
      ProbeDocument(<<>>) }

\* the outputs captured for a path: of a file that exists, and of a missing
\* file (exiftool prints nothing on stdout, ffprobe nothing or an empty object)
ToolOutputs(present) ==
    IF present THEN [exif : FixtureExif, probe : FixtureProbes]
    ELSE [exif : {<<>>}, probe : {EmptyProbe, EmptyObjectProbe}]

InitUnittest ==
    /\ pc = "set_up"
    /\ fixtures = [generated |-> {}, exists |-> {}, built |-> <<>>]
    /\ minfo = NoRecord
    /\ raised = NoExc
    /\ text = <<>>
    /\ probe = <<>>
    /\ result = NoCall
    /\ argv = <<>>
    /\ disk = <<>>
    /\ out = <<>>

\* mov, wav = _set_up()
SetUp ==
    /\ pc = "set_up"
    /\ \E soxMade \in BOOLEAN, ffmpegMade \in BOOLEAN :
          \E movOut \in ToolOutputs(soxMade /\ ffmpegMade),
             wavOut \in ToolOutputs(soxMade /\ ffmpegMade) :
             \E done \in {_set_up(soxMade, ffmpegMade, movOut, wavOut)} :
                 /\ fixtures' = [generated |-> done.generated,
                                 exists |-> done.exists,
                                 built |-> done.built]
                 /\ minfo' = done.records
                 /\ raised' = done.exc
                 /\ pc' = IF done.exc = NoExc THEN "testing" ELSE "error"
    /\ UNCHANGED <<text, probe, result, argv, disk, out>>

\* the try block of _unittest, with its clean-up on any exception
RunTests ==
    /\ pc = "testing"
    /\ \E exc \in {RunAllTests(minfo[1], minfo[2])} :
          IF exc = NoExc
          THEN /\ pc' = "passed"
               /\ UNCHANGED <<fixtures, raised>>
          ELSE /\ pc' = "error"
               /\ raised' = exc
               /\ fixtures' =
                     [fixtures EXCEPT
                         !.exists = _cleanup(@, {minfo[1].path, minfo[2].path})]
    /\ UNCHANGED <<text, probe, minfo, result, argv, disk, out>>

NextUnittest == SetUp \/ RunTests

SpecUnittest == InitUnittest /\ [][NextUnittest]_vars

\* C9: when a generator leaves no file, set-up removes the fixture files made
\* so far and raises the generation failure; it constructs no record.
C9_FixtureFailureExplicit ==
    (pc # "set_up" /\ fixtures.generated # {WavPath, MovPath}) =>
        /\ raised = "IOError"
        /\ fixtures.built = <<>>
        /\ fixtures.exists = {}

====
